---- MODULE Spec2Model ----
(***************************************************************************)
(* The connection registry (connection_registry.py) and the registration   *)
(* step of the router (router.py) of web-router.                           *)
(*                                                                         *)
(* RegistrySpec drives one ConnectionRegistry through arbitrary sequences  *)
(* of register / unregister / broadcast calls and records what each call   *)
(* returned or raised.  RouterSpec drives Router._handle_connection for a  *)
(* set of websocket connections.  SessionSpec adds clients that carry an   *)
(* entity key and send actions to their handler.                           *)
(***************************************************************************)
EXTENDS Integers, Sequences, FiniteSets, TLC

\* ---- bounds -------------------------------------------------------------
MaxCalls == 3          \* registry calls made by the driver of RegistrySpec
MaxHandle == 2         \* largest connection key a caller passes to unregister
MaxParams == 2         \* query parameters in a connection path
MaxInbox == 1          \* actions a client has sent ahead of its handler

EntityKeys == {"room1", "room2"}
Connections == {"A", "B"}
Payloads == {"hi"}
ParamNames == {"entityKey", "a"}
ParamValues == {"room1", ""}

VARIABLES
    registry,   \* ConnectionRegistry._registry: entity key -> deque of <<key, connection>>
    count,      \* the value the key generator yields next
    open,       \* connections whose transport is still open
    delivered,  \* per connection: payloads received through connection.send of a broadcast
    log,        \* RegistrySpec: the calls made so far, each with its outcome
    pc,         \* RouterSpec: position of each connection's handler
    path,       \* RouterSpec: the request path a connection was opened with
    sends,      \* RouterSpec: events the router passed to connection.send
    exc,        \* RouterSpec: the exception that left _handle_connection, if any
    inbox       \* SessionSpec: actions a client has sent that no handler has read

vars == <<registry, count, open, delivered, log, pc, path, sends, exc, inbox>>

\* ---- helpers ------------------------------------------------------------
EmptyDict == [k \in {} |-> <<>>]

RECURSIVE IndexOf(_, _, _)
\* index of the first entry of deque d, from position i on, whose key is h (0: none)
IndexOf(d, h, i) ==
    IF i > Len(d) THEN 0
    ELSE IF d[i][1] = h THEN i
    ELSE IndexOf(d, h, i + 1)

RemoveAt(d, i) == [j \in 1..(Len(d) - 1) |-> IF j < i THEN d[j] ELSE d[j + 1]]

\* outcome of a registry operation: the exception raised ("none" if it
\* returned), the value returned, and the state it leaves
Outcome(e, v, reg, cnt, dlv) ==
    [exc |-> e, value |-> v, registry |-> reg, count |-> cnt, delivered |-> dlv]

\* ---- connection_registry.py ----------------------------------------------
\* line 84: self._generate_unique_numeric_key is the generator object made in
\* __init__ (line 68); it is called, not passed to next(), and calling a
\* generator object raises TypeError.  The generator is not advanced.
CallKeyGenerator(cnt) == [exc |-> "TypeError", value |-> 0, count |-> cnt]

\* register: the key is obtained first (line 84); the statements after it
\* read the undefined name connection_key (lines 88, 91).
register(reg, cnt, dlv, entity_key, connection) ==
    LET g == CallKeyGenerator(cnt) IN
    IF g.exc # "none"
    THEN Outcome(g.exc, 0, reg, g.count, dlv)
    ELSE Outcome("NameError", 0, reg, g.count, dlv)

\* unregister with the KeyError of line 117 swallowed: a missing group is a no-op
unregister_SilentOnMissingGroup(reg, cnt, dlv, entity_key, connection_key) ==
    IF entity_key \notin DOMAIN reg
    THEN Outcome("none", 0, reg, cnt, dlv)
    ELSE LET d == reg[entity_key]
             i == IndexOf(d, connection_key, 1)
         IN  IF i = 0
             THEN Outcome("ConnectionNotFoundError", 0, reg, cnt, dlv)
             ELSE Outcome("none", 0,
                          [reg EXCEPT ![entity_key] = RemoveAt(d, i)], cnt, dlv)

unregister(reg, cnt, dlv, entity_key, connection_key) ==
    IF entity_key \notin DOMAIN reg
    THEN Outcome("ConnectionNotFoundError", 0, reg, cnt, dlv)       \* lines 115-118
    ELSE LET d == reg[entity_key]
             i == IndexOf(d, connection_key, 1)
         IN  IF Len(d) = 0
             THEN Outcome("ConnectionNotFoundError", 0, reg, cnt, dlv)   \* 120-121
             ELSE IF i = 0
             THEN Outcome("ConnectionNotFoundError", 0, reg, cnt, dlv)   \* 130-131
             ELSE Outcome("none", 0,
                          [reg EXCEPT ![entity_key] = RemoveAt(d, i)],  \* 133
                          cnt, dlv)

\* broadcast with the KeyError of line 153 swallowed: a missing group is
\* treated as an empty one
broadcast_SilentOnMissingGroup(reg, cnt, dlv, entity_key, data) ==
    Outcome("none", 0, reg, cnt, dlv)

\* broadcast looking the group up with setdefault: a missing group is created
broadcast_CreatesGroup(reg, cnt, dlv, entity_key, data) ==
    IF entity_key \notin DOMAIN reg
    THEN Outcome("none", 0,
                 [k \in DOMAIN reg \cup {entity_key} |->
                     IF k \in DOMAIN reg THEN reg[k] ELSE <<>>],
                 cnt, dlv)
    ELSE Outcome("none", 0, reg, cnt, dlv)

\* broadcast: lines 161-166 hand a lambda to ProcessPoolExecutor.map and drop
\* the result iterator; the work items cannot be pickled for the worker
\* processes and their errors stay in futures nobody reads, so no
\* connection.send runs in this process and nothing is raised.
broadcast(reg, cnt, dlv, entity_key, data) ==
    IF entity_key \notin DOMAIN reg
    THEN Outcome("EntityNotFoundError", 0, reg, cnt, dlv)           \* lines 151-154
    ELSE Outcome("none", 0, reg, cnt, dlv)

\* ---- RegistrySpec: a driver calling the registry -------------------------
Call(op, k, c, h, p, out) ==
    [op |-> op, key |-> k, conn |-> c, handle |-> h, payload |-> p,
     exc |-> out.exc, value |-> out.value, closed |-> Connections \ open]

Apply(out, entry) ==
    /\ registry' = out.registry
    /\ count' = out.count
    /\ delivered' = out.delivered
    /\ log' = Append(log, entry)
    /\ UNCHANGED <<open, pc, path, sends, exc, inbox>>

Register(k, c) ==
    /\ Len(log) < MaxCalls
    /\ LET out == register(registry, count, delivered, k, c)
       IN  Apply(out, Call("register", k, c, 0, "", out))

Unregister(k, h) ==
    /\ Len(log) < MaxCalls
    /\ LET out == unregister(registry, count, delivered, k, h)
       IN  Apply(out, Call("unregister", k, "", h, "", out))

Broadcast(k, p) ==
    /\ Len(log) < MaxCalls
    /\ LET out == broadcast(registry, count, delivered, k, p)
       IN  Apply(out, Call("broadcast", k, "", 0, p, out))

\* the peer of a connection goes away; a later send to it fails
Disconnect(c) ==
    /\ c \in open
    /\ open' = open \ {c}
    /\ UNCHANGED <<registry, count, delivered, log, pc, path, sends, exc, inbox>>

Init ==
    /\ registry = EmptyDict                       \* connection_registry.py:67
    /\ count = 1                                  \* connection_registry.py:10
    /\ open = Connections
    /\ delivered = [c \in Connections |-> <<>>]
    /\ log = <<>>
    /\ pc = [c \in Connections |-> "Idle"]
    /\ path = [c \in Connections |-> [query |-> FALSE, params |-> <<>>]]
    /\ sends = [c \in Connections |-> <<>>]
    /\ exc = [c \in Connections |-> "none"]
    /\ inbox = [c \in Connections |-> <<>>]

RegistryNext ==
    \/ \E k \in EntityKeys, c \in Connections : Register(k, c)
    \/ \E k \in EntityKeys, h \in 1..MaxHandle : Unregister(k, h)
    \/ \E k \in EntityKeys, p \in Payloads : Broadcast(k, p)
    \/ \E c \in Connections : Disconnect(c)

RegistrySpec == Init /\ [][RegistryNext]_vars

\* ---- the calls recorded in log ------------------------------------------
Last(l) == l[Len(l)]

\* the step appends a call of operation op to log
CallStep(op) == Len(log') = Len(log) + 1 /\ Last(log').op = op

\* number of register calls among the first i calls
RegistersUpTo(i) == Cardinality({j \in 1..i : log[j].op = "register"})

\* the i-th call is register(k, c) for some c, made before call n
RegisteredBefore(n, k) == \E j \in 1..(n - 1) : log[j].op = "register" /\ log[j].key = k

\* connections passed to register under k before call n whose registration
\* was not undone by a successful unregister of the handle it returned
MembersAt(n, k) ==
    {c \in Connections :
        \E j \in 1..(n - 1) :
            /\ log[j].op = "register" /\ log[j].key = k /\ log[j].conn = c
            /\ ~ \E m \in (j + 1)..(n - 1) :
                    /\ log[m].op = "unregister" /\ log[m].key = k
                    /\ log[m].handle = RegistersUpTo(j) /\ log[m].exc = "none"}

\* ---- C1 ------------------------------------------------------------------
\* C1: the k-th register call on a fresh registry returns handle k, whatever
\* unregister calls are interleaved and whatever the entity keys are.
C1_HandlesCountUp ==
    \A i \in 1..Len(log) :
        log[i].op = "register" => log[i].exc = "none" /\ log[i].value = RegistersUpTo(i)

\* ---- C2 ------------------------------------------------------------------
\* C2: register(entityKey, session) always succeeds, and afterwards the group
\* of entityKey is its previous entry collection (empty when the group was
\* absent) with the one entry <<returned handle, session>> appended.
C2_RegisterAppends ==
    [][CallStep("register") =>
        LET call == Last(log')
            before == IF call.key \in DOMAIN registry THEN registry[call.key] ELSE <<>>
        IN  /\ call.exc = "none"
            /\ call.key \in DOMAIN registry'
            /\ registry'[call.key] = Append(before, <<call.value, call.conn>>)]_vars

\* ---- C3 ------------------------------------------------------------------
\* C3: when no send fails, every broadcast delivers its payload exactly once
\* to each session registered under its entity key at the moment of the call,
\* and to no other session: a session has received as many payloads as there
\* were broadcasts to a group it was a member of.
C3_BroadcastDeliversToMembers ==
    (\A i \in 1..Len(log) : log[i].closed = {}) =>
        \A c \in Connections :
            Len(delivered[c]) =
                Cardinality({i \in 1..Len(log) :
                    log[i].op = "broadcast" /\ c \in MembersAt(i, log[i].key)})

\* ---- C4 ------------------------------------------------------------------
\* C4: a broadcast one of whose recipients cannot be sent to fails with
\* ConnectionSendingError (SendFailure), and the recipients whose transport
\* is open have still received the payload.
C4_BroadcastCollectsFailures ==
    \A i \in 1..Len(log) :
        (log[i].op = "broadcast" /\ MembersAt(i, log[i].key) \cap log[i].closed # {}) =>
            /\ log[i].exc = "ConnectionSendingError"
            /\ \A c \in MembersAt(i, log[i].key) \ log[i].closed :
                   \E n \in 1..Len(delivered[c]) : delivered[c][n] = log[i].payload

\* ---- C5 ------------------------------------------------------------------
\* C5: unregister(entityKey, h) called right after h = register(entityKey, s)
\* succeeds, and the same unregister called once more fails with
\* ConnectionNotFoundError (HandleNotFound).  h is the handle the
\* registration is due: the number of register calls made so far.
C5_RegisterThenUnregisterTwice ==
    \A i \in 1..Len(log) :
        LET IsUndo(j) == /\ j <= Len(log)
                         /\ log[j].op = "unregister"
                         /\ log[j].key = log[i].key
                         /\ log[j].handle = RegistersUpTo(i)
        IN  (log[i].op = "register" /\ IsUndo(i + 1)) =>
                /\ log[i + 1].exc = "none"
                /\ IsUndo(i + 2) => log[i + 2].exc = "ConnectionNotFoundError"

\* ---- C6 ------------------------------------------------------------------
\* C6 (as claimed): unregister on an entity key that has no group fails with
\* the group-not-found error (EntityNotFoundError), an outcome distinct from
\* the ConnectionNotFoundError of a missing handle.
C6_NoGroupIsDistinctError ==
    [][(CallStep("unregister") /\ Last(log').key \notin DOMAIN registry) =>
        Last(log').exc = "EntityNotFoundError"]_vars

\* C6 (amended): unregister on an entity key that has no group fails with
\* ConnectionNotFoundError, the one error every failing unregister raises;
\* it is never a silent no-op and it leaves the registry unchanged.
C6_NoGroupIsConnectionNotFound ==
    [][CallStep("unregister") =>
        /\ Last(log').key \notin DOMAIN registry =>
              Last(log').exc = "ConnectionNotFoundError"
        /\ Last(log').exc # "none" =>
              /\ Last(log').exc = "ConnectionNotFoundError"
              /\ UNCHANGED <<registry, count, delivered>>]_vars

C6_Witness ==
    \E i \in 1..Len(log) :
        /\ log[i].op = "unregister"
        /\ log[i].key \notin DOMAIN registry
        /\ log[i].exc = "ConnectionNotFoundError"

\* ---- C7 ------------------------------------------------------------------
\* C7: broadcast on an entity key under which no registration has occurred
\* fails with EntityNotFoundError (GroupNotFound), sends nothing and leaves
\* the registry unchanged.
C7_BroadcastUnknownKey ==
    [][(CallStep("broadcast")
            /\ ~ RegisteredBefore(Len(log'), Last(log').key)) =>
        /\ Last(log').exc = "EntityNotFoundError"
        /\ UNCHANGED <<registry, count, delivered>>]_vars

C7_Witness ==
    \E i \in 1..Len(log) :
        /\ log[i].op = "broadcast"
        /\ ~ RegisteredBefore(i, log[i].key)
        /\ log[i].exc = "EntityNotFoundError"
        /\ \A c \in Connections : delivered[c] = <<>>

\* ---- C8 ------------------------------------------------------------------
\* C8: a group created by a registration exists in every later state, and a
\* broadcast to a key that was registered under succeeds even when the group
\* has become empty.
C8_GroupPersists ==
    \A i \in 1..Len(log) :
        /\ log[i].op = "register" => log[i].key \in DOMAIN registry
        /\ (log[i].op = "broadcast" /\ RegisteredBefore(i, log[i].key)) =>
               log[i].exc # "EntityNotFoundError"

\* ---- C9 ------------------------------------------------------------------
\* C9: broadcast never changes registry membership: the set of groups and
\* each group's ordered entries are the same after the call as before it,
\* whatever the outcome of the call.
C9_BroadcastKeepsRegistry ==
    [][CallStep("broadcast") => registry' = registry]_vars

C9_Witness ==
    \E i \in 1..Len(log) :
        /\ log[i].op = "broadcast"
        /\ RegisteredBefore(i, log[i].key)

\* ---- router.py ------------------------------------------------------------
Params == ParamNames \X ParamValues

\* the request paths: without a query string, or with "?" followed by up to
\* MaxParams name=value fields
Paths ==
    {[query |-> FALSE, params |-> <<>>]} \cup
    {[query |-> TRUE, params |-> ps] :
        ps \in UNION {[1..m -> Params] : m \in 0..MaxParams}}

\* line 32: path[index:] keeps the "?" it searched for, so the text handed to
\* parse_qs starts with "?" and the first field's name carries it
QueryString(p) ==
    IF Len(p.params) = 0
    THEN << <<"?", "">> >>
    ELSE [i \in 1..Len(p.params) |->
            IF i = 1 THEN <<"?" \o p.params[1][1], p.params[1][2]>> ELSE p.params[i]]

\* urllib.parse.parse_qs: name -> list of its values, blank values dropped
parse_qs(fields) ==
    LET kept == SelectSeq(fields, LAMBDA f : f[2] # "")
        names == {kept[i][1] : i \in 1..Len(kept)}
    IN  [n \in names |->
            LET mine == SelectSeq(kept, LAMBDA f : f[1] = n)
            IN  [i \in 1..Len(mine) |-> mine[i][2]]]

get_connection_query_parameters(p) ==
    IF ~ p.query THEN EmptyDict                   \* lines 27-30
    ELSE parse_qs(QueryString(p))                 \* lines 32-35

Event(status, type, connection_key) ==
    [status |-> status, type |-> type, connectionKey |-> connection_key]

EntityKeyMissing == Event("error", "entityKeyMissingAtConnectionRegistration", 0)

\* send_event_through_connection: connection.send raises ConnectionClosed
\* when the peer is gone
send_event_through_connection(event, is_open) ==
    [exc |-> IF is_open THEN "none" ELSE "ConnectionClosed",
     sent |-> <<[event |-> event, delivered |-> is_open]>>]

RegistrationOutcome(e, sent, reg, cnt, dlv) ==
    [exc |-> e, sent |-> sent, registry |-> reg, count |-> cnt, delivered |-> dlv]

\* _handle_registration returning instead of raising CloseConnection after
\* the error event
handle_registration_NoClose(reg, cnt, dlv, p, c, is_open) ==
    LET s == send_event_through_connection(EntityKeyMissing, is_open)
    IN  RegistrationOutcome(s.exc, s.sent, reg, cnt, dlv)

\* Router._handle_registration
handle_registration(reg, cnt, dlv, p, c, is_open) ==
    LET parameters == get_connection_query_parameters(p) IN
    IF "entityKey" \notin DOMAIN parameters
    THEN \* lines 83-92
         LET s == send_event_through_connection(EntityKeyMissing, is_open)
         IN  RegistrationOutcome(IF s.exc # "none" THEN s.exc ELSE "CloseConnection",
                                 s.sent, reg, cnt, dlv)
    ELSE \* lines 94-107
         LET r == register(reg, cnt, dlv, parameters["entityKey"], c) IN
         IF r.exc # "none"
         THEN RegistrationOutcome(r.exc, <<>>, r.registry, r.count, r.delivered)
         ELSE LET s == send_event_through_connection(
                           Event("success", "connectionRegistered", r.value), is_open)
              IN  RegistrationOutcome(s.exc, s.sent, r.registry, r.count, r.delivered)

\* ---- RouterSpec -----------------------------------------------------------
\* websockets accepts a connection and starts Router._handle_connection on it
Connect(c, p) ==
    /\ pc[c] = "Idle"
    /\ c \in open
    /\ pc' = [pc EXCEPT ![c] = "Connecting"]
    /\ path' = [path EXCEPT ![c] = p]
    /\ UNCHANGED <<registry, count, open, delivered, log, sends, exc, inbox>>

\* Router._handle_connection, lines 268-271: the registration step; only
\* CloseConnection is caught, any other exception leaves the handler
HandleRegistration(c) ==
    /\ pc[c] = "Connecting"
    /\ LET r == handle_registration(registry, count, delivered, path[c], c, c \in open)
       IN  /\ registry' = r.registry
           /\ count' = r.count
           /\ delivered' = r.delivered
           /\ sends' = [sends EXCEPT ![c] = sends[c] \o r.sent]
           /\ pc' = [pc EXCEPT ![c] = IF r.exc = "none" THEN "Dispatching" ELSE "Closed"]
           /\ exc' = [exc EXCEPT ![c] = IF r.exc = "CloseConnection" THEN "none" ELSE r.exc]
    /\ UNCHANGED <<open, log, path, inbox>>

RouterNext ==
    \/ \E c \in Connections, p \in Paths : Connect(c, p)
    \/ \E c \in Connections : HandleRegistration(c)
    \/ \E c \in Connections : Disconnect(c)

RouterSpec == Init /\ [][RouterNext]_vars

\* ---- SessionSpec: clients that carry an entity key and send actions ------
\* the paths "/?entityKey=k" and "/?a=room1&entityKey=k"
KeyPaths ==
    {[query |-> TRUE, params |-> << <<"entityKey", k>> >>] : k \in EntityKeys} \cup
    {[query |-> TRUE, params |-> << <<"a", "room1">>, <<"entityKey", k>> >>] :
        k \in EntityKeys}

\* the action texts a client sends: text that is not JSON, {} without a
\* type, unregister with data.connectionKey, broadcast without and with data
Action(kind, has_data, connection_key, data) ==
    [kind |-> kind, hasData |-> has_data, connectionKey |-> connection_key, data |-> data]

ClientActions ==
    {Action("undecodable", FALSE, 0, ""), Action("notype", FALSE, 0, ""),
     Action("broadcast", FALSE, 0, "")} \cup
    {Action("unregister", TRUE, h, "") : h \in 1..MaxHandle} \cup
    {Action("broadcast", TRUE, 0, p) : p \in Payloads}

\* the client of c sends an action; it waits until the loop of line 273
\* reads it
ClientSend(c, a) ==
    /\ pc[c] \in {"Connecting", "Dispatching"}
    /\ c \in open
    /\ Len(inbox[c]) < MaxInbox
    /\ inbox' = [inbox EXCEPT ![c] = Append(inbox[c], a)]
    /\ UNCHANGED <<registry, count, open, delivered, log, pc, path, sends, exc>>

SessionNext ==
    \/ \E c \in Connections, p \in KeyPaths : Connect(c, p)
    \/ \E c \in Connections : HandleRegistration(c)
    \/ \E c \in Connections, a \in ClientActions : ClientSend(c, a)
    \/ \E c \in Connections : Disconnect(c)

SessionSpec == Init /\ [][SessionNext]_vars

\* ---- C10 ------------------------------------------------------------------
\* the connection parameters of path p carry no entityKey
NoEntityKey(p) == \A i \in 1..Len(p.params) : p.params[i][1] # "entityKey"

\* C10: the handler of a connection whose parameters carry no entityKey sends
\* it the error event entityKeyMissingAtConnectionRegistration and ends
\* (Connecting to Closed, by return or because that send failed) without
\* registering it or taking a key from the generator, and such a connection
\* is never in Dispatching.
C10_MissingEntityKeyCloses ==
    /\ [](\A c \in Connections :
            NoEntityKey(path[c]) => pc[c] # "Dispatching")
    /\ [][\A c \in Connections :
            (pc[c] = "Connecting" /\ pc'[c] # "Connecting" /\ NoEntityKey(path[c])) =>
                /\ pc'[c] = "Closed"
                /\ exc'[c] \in {"none", "ConnectionClosed"}
                /\ \E d \in BOOLEAN :
                       sends'[c] = Append(sends[c],
                                          [event |-> EntityKeyMissing, delivered |-> d])
                /\ UNCHANGED <<registry, count>>]_vars

C10_Witness ==
    \E c \in Connections :
        /\ path[c].query /\ Len(path[c].params) > 0 /\ NoEntityKey(path[c])
        /\ pc[c] = "Closed"
        /\ exc[c] = "none"
        /\ sends[c] = <<[event |-> EntityKeyMissing, delivered |-> TRUE]>>
        /\ registry = EmptyDict
        /\ count = 1

\* ---- C11 ------------------------------------------------------------------
\* the connection parameters of path p carry an entityKey with a value
CarriesEntityKey(p) ==
    \E i \in 1..Len(p.params) : p.params[i][1] = "entityKey" /\ p.params[i][2] # ""

\* the entity key string a path carries: the value of its first entityKey
EntityKeyOf(p) ==
    LET i == CHOOSE j \in 1..Len(p.params) :
                 /\ p.params[j][1] = "entityKey" /\ p.params[j][2] # ""
                 /\ \A m \in 1..(j - 1) :
                        ~ (p.params[m][1] = "entityKey" /\ p.params[m][2] # "")
    IN  p.params[i][2]

\* C11: once its registration step is over, a connection that carries an
\* entityKey value and whose peer is still there is in Dispatching, has an
\* entry in the group of exactly that entity key string, and has been sent
\* connectionRegistered with the handle of that entry and nothing else.
C11_EntityKeyRegisters ==
    \A c \in Connections :
        (CarriesEntityKey(path[c]) /\ pc[c] \notin {"Idle", "Connecting"} /\ c \in open) =>
            /\ pc[c] = "Dispatching"
            /\ EntityKeyOf(path[c]) \in DOMAIN registry
            /\ \E i \in 1..Len(registry[EntityKeyOf(path[c])]) :
                   LET entry == registry[EntityKeyOf(path[c])][i]
                   IN  /\ entry[2] = c
                       /\ sends[c] = <<[event |-> Event("success", "connectionRegistered",
                                                        entry[1]),
                                        delivered |-> TRUE]>>

\* ---- actions waiting in inbox ---------------------------------------------
\* the handler of c can still read an action from c
HandlerAlive(c) == pc[c] \in {"Connecting", "Dispatching"}

\* c's peer is there and has sent an action of one of the kinds, not yet read
Waiting(c, kinds) ==
    /\ c \in open
    /\ \E i \in 1..Len(inbox[c]) : inbox[c][i].kind \in kinds

\* connection keys stored in the group c registers under
HandlesInGroupOf(c) ==
    IF EntityKeyOf(path[c]) \in DOMAIN registry
    THEN {registry[EntityKeyOf(path[c])][i][1] :
             i \in 1..Len(registry[EntityKeyOf(path[c])])}
    ELSE {}

\* ---- C12 ------------------------------------------------------------------
\* C12: a session that sent text that cannot be decoded, or an action without
\* a type, is not closed by it: while such an action of a connected client
\* waits to be read, the handler has not ended and no exception has left it,
\* so the action and the ones after it are still received and answered.
C12_MalformedActionKeepsSession ==
    \A c \in Connections :
        Waiting(c, {"undecodable", "notype"}) =>
            /\ HandlerAlive(c)
            /\ exc[c] = "none"

\* ---- C13 ------------------------------------------------------------------
\* C13: an unregister action whose connectionKey is not a handle of the
\* session's group is answered with invalidConnectionKey: while it waits to
\* be read the handler is there to answer it, and the registry holds what
\* it held.
C13_UnknownConnectionKeyAnswered ==
    \A c \in Connections :
        (/\ c \in open
         /\ \E i \in 1..Len(inbox[c]) :
                /\ inbox[c][i].kind = "unregister"
                /\ inbox[c][i].connectionKey \notin HandlesInGroupOf(c)) =>
            HandlerAlive(c)

\* ---- C14 ------------------------------------------------------------------
\* C14: a broadcast action without data is answered with
\* missingDataAtBroadcasting: while it waits to be read the handler is there
\* to answer it, and it has caused no delivery.
C14_BroadcastWithoutDataAnswered ==
    \A c \in Connections :
        (/\ c \in open
         /\ \E i \in 1..Len(inbox[c]) :
                inbox[c][i].kind = "broadcast" /\ ~ inbox[c][i].hasData) =>
            /\ HandlerAlive(c)
            /\ \A d \in Connections : delivered[d] = <<>>

\* ---- C15 ------------------------------------------------------------------
\* C15: the recipients of a broadcast, the connections it delivers to, are
\* exactly the members the group had when the broadcast started.
C15_RecipientsAreMembersAtStart ==
    [][CallStep("broadcast") =>
        {c \in Connections : delivered'[c] # delivered[c]}
            = MembersAt(Len(log'), Last(log').key)]_vars

\* ---- C17 ------------------------------------------------------------------
\* handles due to the registrations under k made before call n and not undone
\* since: the j-th call, a register, is due the number of register calls so far
DueHandles(n, k) ==
    {RegistersUpTo(j) : j \in
        {i \in 1..(n - 1) :
            /\ log[i].op = "register" /\ log[i].key = k
            /\ ~ \E m \in (i + 1)..(n - 1) :
                    /\ log[m].op = "unregister" /\ log[m].key = k
                    /\ log[m].handle = RegistersUpTo(i) /\ log[m].exc = "none"}}

\* C17: unregister(entityKey, handle) of a handle registered under entityKey
\* removes exactly the entry carrying it: the group then holds the other
\* handles registered under the key, in the order of their registration, and
\* every other group is as it was.
C17_UnregisterRemovesOneEntry ==
    [][(CallStep("unregister")
            /\ Last(log').handle \in DueHandles(Len(log'), Last(log').key)) =>
        LET k == Last(log').key
            rest == DueHandles(Len(log'), k) \ {Last(log').handle}
        IN  /\ Last(log').exc = "none"
            /\ k \in DOMAIN registry'
            /\ {registry'[k][i][1] : i \in 1..Len(registry'[k])} = rest
            /\ \A i, j \in 1..Len(registry'[k]) :
                   i < j => registry'[k][i][1] < registry'[k][j][1]
            /\ \A g \in DOMAIN registry \ {k} :
                   g \in DOMAIN registry' /\ registry'[g] = registry[g]]_vars

\* ---- C19 ------------------------------------------------------------------
\* C19: an unregister action of a session under entity key K leaves the
\* groups of other keys alone and is answered: with another connected
\* session d registered under a different key, d is still an entry of its
\* group whatever connectionKey the action names, and the handler is there
\* to answer a key of d's group with invalidConnectionKey.
C19_UnregisterStaysInOwnGroup ==
    \A c, d \in Connections :
        (/\ Waiting(c, {"unregister"})
         /\ d \in open /\ pc[d] \notin {"Idle", "Connecting"}
         /\ EntityKeyOf(path[d]) # EntityKeyOf(path[c])) =>
            /\ EntityKeyOf(path[d]) \in DOMAIN registry
            /\ \E i \in 1..Len(registry[EntityKeyOf(path[d])]) :
                   registry[EntityKeyOf(path[d])][i][2] = d
            /\ HandlerAlive(c)

====
